---- MODULE Spec2Model ----
(***************************************************************************)
(* Model of the photo capture page (src/pages/CapturePhoto.tsx): overlay   *)
(* selection state, the asynchronous capture pipeline and the upload       *)
(* handler, together with the rows and storage objects it writes.          *)
(***************************************************************************)
EXTENDS Integers, Sequences, FiniteSets, TLC

\* ------------------------------------------------------------------ bounds
\* The page is followed for this many presses of Upload: photos are
\* captured while another upload can still be started.
MaxAttempts == 1

\* --------------------------------------------------------- overlay types
\* OrientationSettings; opacity and scale are kept in percent.
Settings(en, pos, op, sc) ==
  [enabled |-> en, position |-> pos, opacity |-> op, scale |-> sc]

getDefaultOrientationSettings == Settings(TRUE, "bottom-right", 80, 30)

\* OverlayItem values used as configuration inputs.
ItemA ==
  [id |-> "a", name |-> "Alpha", portraitUrl |-> "a-p.png",
   landscapeUrl |-> "a-l.png",
   portrait |-> getDefaultOrientationSettings,
   landscape |-> Settings(TRUE, "center", 100, 100)]
ItemB ==
  [id |-> "b", name |-> "Beta", portraitUrl |-> "b-p.png",
   landscapeUrl |-> "",
   portrait |-> Settings(TRUE, "top-left", 50, 95),
   landscape |-> getDefaultOrientationSettings]
ItemC ==
  [id |-> "c", name |-> "Gamma", portraitUrl |-> "c-p.png",
   landscapeUrl |-> "c-l.png",
   portrait |-> Settings(FALSE, "bottom-right", 80, 30),
   landscape |-> Settings(TRUE, "top-right", 80, 50)]

\* JSON null as stored in upload_tokens.overlay_config / React state.
NullJson == [isNull |-> TRUE]

\* Values of upload_tokens.overlay_config the link may hold.
OverlayConfigs ==
  { [enabled |-> FALSE, mode |-> "user_choice", overlays |-> <<ItemB, ItemC, ItemA>>],
    [enabled |-> TRUE, mode |-> "random", overlays |-> <<ItemB>>],
    [enabled |-> TRUE, mode |-> "random", overlays |-> <<ItemB, ItemC, ItemA>>],
    [enabled |-> TRUE, mode |-> "user_choice", overlays |-> <<ItemB, ItemC, ItemA>>] }

LegacyConfigs ==
  { [enabled |-> TRUE, url |-> [t |-> "string", v |-> "legacy.png"],
     position |-> "bottom-right", opacity |-> 80, scale |-> 30] }

RawConfigs == {NullJson} \cup OverlayConfigs \cup LegacyConfigs

IsNull(v) == "isNull" \in DOMAIN v

\* JSON values: null is NullJson, a string, number or boolean is
\* [t |-> its type, v |-> its value], an object is a record of its fields.
IsPrimitive(v) == "t" \in DOMAIN v
\* typeof v
TypeOf(v) == IF IsPrimitive(v) THEN v.t ELSE "object"
\* !v is false
Truthy(v) ==
  IF IsNull(v) THEN FALSE
  ELSE IF ~IsPrimitive(v) THEN TRUE
  ELSE CASE v.t = "string" -> v.v # ""
         [] v.t = "number" -> v.v # 0
         [] v.t = "boolean" -> v.v

\* isLegacyOverlayConfig without the typeof test of url.
isLegacyOverlayConfig_NoTypeCheck(config) ==
  IF ~Truthy(config) \/ TypeOf(config) # "object" THEN FALSE
  ELSE /\ "url" \in DOMAIN config
       /\ ~("overlays" \in DOMAIN config)

isLegacyOverlayConfig(config) ==
  IF ~Truthy(config) \/ TypeOf(config) # "object" THEN FALSE
  ELSE /\ "url" \in DOMAIN config
       /\ TypeOf(config.url) = "string"
       /\ ~("overlays" \in DOMAIN config)

\* migrateLegacyConfig giving the item the default settings.
migrateLegacyConfig_DefaultSettings(legacy) ==
  LET settings == getDefaultOrientationSettings
  IN [enabled |-> legacy.enabled,
      mode |-> "random",
      overlays |-> << [id |-> "uuid", name |-> "Default Overlay",
                       portraitUrl |-> legacy.url.v,
                       landscapeUrl |-> legacy.url.v,
                       portrait |-> settings,
                       landscape |-> settings] >>]

\* migrateLegacyConfig that only adds the mode to the legacy object.
migrateLegacyConfig_KeepsLegacyShape(legacy) ==
  [enabled |-> legacy.enabled, mode |-> "random", url |-> legacy.url,
   position |-> legacy.position, opacity |-> legacy.opacity,
   scale |-> legacy.scale]

migrateLegacyConfig(legacy) ==
  LET settings == Settings(TRUE, legacy.position, legacy.opacity, legacy.scale)
  IN [enabled |-> legacy.enabled,
      mode |-> "random",
      overlays |-> << [id |-> "uuid", name |-> "Default Overlay",
                       portraitUrl |-> legacy.url.v,
                       landscapeUrl |-> legacy.url.v,
                       portrait |-> settings,
                       landscape |-> settings] >>]

\* The config a page works with once a raw value has been read.
LoadConfig(raw) ==
  IF isLegacyOverlayConfig(raw) THEN migrateLegacyConfig(raw) ELSE raw

\* ----------------------------------------------------------------- photos
\* A photo is named by its decoded size ("P": 3x4, "L": 4x3); a name that
\* is not a decodable photo stands for bytes that do not decode.
Photos == {"P", "L"}
\* Further pictures: a square, a tall and a wide one, a single pixel.
DecodablePhotos == Photos \cup {"S", "T", "W", "O"}
Decodes(photo) == photo \in DecodablePhotos
Width(photo) ==
  CASE photo = "P" -> 3 [] photo = "L" -> 4 [] photo = "S" -> 4
    [] photo = "T" -> 1 [] photo = "W" -> 5 [] OTHER -> 1
Height(photo) ==
  CASE photo = "P" -> 4 [] photo = "L" -> 3 [] photo = "S" -> 4
    [] photo = "T" -> 5 [] photo = "W" -> 1 [] OTHER -> 1

NoImage == [photo |-> "none", layers |-> <<>>]

\* detectOrientation with the square picture counted as portrait (>=).
detectOrientation_SquareIsPortrait(image) ==
  IF ~Decodes(image.photo) THEN "portrait"
  ELSE IF Height(image.photo) >= Width(image.photo) THEN "portrait"
  ELSE "landscape"

\* detectOrientation: the value its promise resolves with.
detectOrientation(image) ==
  IF ~Decodes(image.photo) THEN "portrait"
  ELSE IF Height(image.photo) > Width(image.photo) THEN "portrait"
  ELSE "landscape"

SettingsOf(overlay, orientation) ==
  IF orientation = "portrait" THEN overlay.portrait ELSE overlay.landscape
UrlOf(overlay, orientation) ==
  IF orientation = "portrait" THEN overlay.portraitUrl ELSE overlay.landscapeUrl

RECURSIVE Filter(_, _, _)
Filter(seq, orientation, i) ==
  IF i > Len(seq) THEN <<>>
  ELSE LET overlay == seq[i]
           keep == /\ SettingsOf(overlay, orientation).enabled
                   /\ UrlOf(overlay, orientation) # ""
       IN (IF keep THEN <<overlay>> ELSE <<>>) \o Filter(seq, orientation, i + 1)

\* getAvailableOverlays without the test of the asset URL.
getAvailableOverlays_IgnoresUrl(config, orientation) ==
  SelectSeq(config.overlays,
            LAMBDA overlay : SettingsOf(overlay, orientation).enabled)

getAvailableOverlays(config, orientation) ==
  Filter(config.overlays, orientation, 1)

\* selectedOverlayIndex === null
NoIdx == -1

\* setError(null)
NoError == "none"

\* metadata.overlay_name: null
NullName == "<null>"

\* The upload link the page was opened with (?t=...).
TokenId == "t1"

\* ------------------------------------------------------------------ state
VARIABLES
  overlayConfig,         \* useState<OverlayConfig | null>
  configFetch,           \* fetchTokenData effect: "pending" or "done"
  capturedImage,         \* useState<string | null>, by content
  showOverlayCarousel,
  selectedOverlayIndex,
  availableOverlays,
  imageOrientation,
  uploading,
  success,
  error,
  readers,               \* FileReader loads in flight
  detecting,             \* processImageForOverlay calls awaiting detectOrientation
  upload,                \* the handleUpload call in flight and its locals
  token,                 \* the upload_tokens row
  pending_uploads,       \* rows of pending_uploads
  storage,               \* objects of bucket photo-uploads
  attempts,
  admin,                 \* the admin page's overlay form (Admin.tsx)
  call,                  \* a call of one of the overlay functions
  link,                  \* the clients uploading through the link
  history,               \* the browser's upload history store (IndexedDB)
  approvals              \* the approvals page (Approvals.tsx)

pageVars ==
  <<overlayConfig, configFetch, capturedImage, showOverlayCarousel,
    selectedOverlayIndex, availableOverlays, imageOrientation,
    uploading, success, error>>
taskVars == <<readers, detecting, upload>>
dbVars == <<token, pending_uploads, storage>>
sideVars == <<admin, call, link, history, approvals>>
vars == <<pageVars, taskVars, dbVars, attempts, sideVars>>

\* The locals of handleUpload before its first await.
NoItem ==
  [id |-> "", name |-> "", portraitUrl |-> "", landscapeUrl |-> "",
   portrait |-> Settings(FALSE, "", 0, 0), landscape |-> Settings(FALSE, "", 0, 0)]
IdleUpload ==
  [pc |-> "idle", capturedImage |-> NoImage, showOverlayCarousel |-> FALSE,
   selectedOverlayIndex |-> NoIdx,
   availableOverlays |-> <<>>, imageOrientation |-> "portrait",
   tokenData |-> NullJson, originalBlob |-> NoImage, manipulatedBlob |-> NoImage,
   hasOverlay |-> FALSE, applied |-> "no", selectedOverlay |-> NoItem,
   uploadId |-> 0, originalStored |-> FALSE]

TokenRow(active, expires, raw) ==
  [is_active |-> active, expires_at |-> expires, upload_count |-> 0,
   max_uploads |-> 1, overlay_config |-> raw]

\* The links the page is opened with: a usable link with each overlay
\* configuration, and links that are inactive, expired or not yet expired.
SingleConfig == [enabled |-> TRUE, mode |-> "random", overlays |-> <<ItemB>>]
TokenRows ==
  { TokenRow(TRUE, "null", raw) : raw \in RawConfigs } \cup
  { TokenRow(TRUE, "future", SingleConfig),
    TokenRow(TRUE, "past", SingleConfig),
    TokenRow(FALSE, "null", SingleConfig) }

\* getDefaultOverlayConfig()
getDefaultOverlayConfig == [enabled |-> FALSE, mode |-> "random", overlays |-> <<>>]

\* The admin page before any edit: useState(getDefaultOverlayConfig()), no
\* alert shown, no id generated.
AdminInit ==
  [overlayConfig |-> getDefaultOverlayConfig, alert |-> NoError,
   uuids |-> 0, edits |-> 0]

\* No function call is being followed.
NoCall == [fn |-> "none"]

\* No other client uses the link, the history store is empty and the
\* approvals page is not open.
NoClients == <<>>
EmptyHistory == [store |-> {}, evicted |-> {}, now |-> 0, saves |-> 0]
ApprovalsClosed == [open |-> FALSE]

\* The capture page as it is opened.
PageInit ==
  /\ overlayConfig = NullJson
  /\ configFetch = "pending"
  /\ capturedImage = NoImage
  /\ showOverlayCarousel = FALSE
  /\ selectedOverlayIndex = NoIdx
  /\ availableOverlays = <<>>
  /\ imageOrientation = "portrait"
  /\ uploading = FALSE
  /\ success = FALSE
  /\ error = NoError
  /\ readers = {}
  /\ detecting = {}
  /\ upload = IdleUpload
  /\ token \in TokenRows
  /\ pending_uploads = {}
  /\ storage = {}
  /\ attempts = 0

Init ==
  /\ PageInit
  /\ admin = AdminInit
  /\ call = NoCall
  /\ link = NoClients
  /\ history = EmptyHistory
  /\ approvals = ApprovalsClosed

\* ------------------------------------------------------- page load effects
\* fetchTokenData: the select of overlay_config resolves (or fails).
fetchTokenData ==
  /\ configFetch = "pending"
  /\ configFetch' = "done"
  /\ \/ /\ ~IsNull(token.overlay_config)
        /\ overlayConfig' = LoadConfig(token.overlay_config)
     \/ overlayConfig' = overlayConfig
  /\ UNCHANGED <<capturedImage, showOverlayCarousel, selectedOverlayIndex,
                 availableOverlays, imageOrientation, uploading,
                 success, error, taskVars, dbVars, attempts>>
  /\ UNCHANGED sideVars

\* The admin page saves the link's edit form with the overlay switch
\* flipped (updateToken writes overlay_config in the current format).
updateToken ==
  /\ LET config == IF IsNull(token.overlay_config) THEN getDefaultOverlayConfig
                   ELSE LoadConfig(token.overlay_config)
     IN token' = [token EXCEPT !.overlay_config = [config EXCEPT !.enabled = ~@]]
  /\ UNCHANGED <<pageVars, taskVars, pending_uploads, storage, attempts>>
  /\ UNCHANGED sideVars

\* ------------------------------------------------------- capture pipeline
\* processImageForOverlay up to its first await, without the test of
\* config.enabled.
StartProcess_NoEnabledCheck(image, config) ==
  IF Len(config.overlays) = 0
  THEN detecting
  ELSE detecting \cup {[image |-> image, config |-> config]}

\* processImageForOverlay up to its first await: the set of pending
\* detections after the call processImageForOverlay(image, config).
StartProcess(image, config) ==
  IF ~config.enabled \/ Len(config.overlays) = 0
  THEN detecting
  ELSE detecting \cup {[image |-> image, config |-> config]}

\* The selection screen (camera and gallery file inputs) is rendered.
SelectionScreen == ~success /\ capturedImage = NoImage
\* The preview block (carousel, Retake, Upload) is rendered.
PreviewScreen == ~success /\ capturedImage # NoImage
CarouselVisible ==
  PreviewScreen /\ showOverlayCarousel /\ Len(availableOverlays) > 0

\* A detection of this picture is still pending (the pending detections
\* are kept as a set).
InFlight(photo) == \E t \in detecting : t.image.photo = photo

validateFile(file) ==
  IF file = "notImage" THEN "Please select an image file"
  ELSE IF file = "tooLarge" THEN "Image is too large (max 15MB)"
  ELSE NoError

\* A file is picked in one of the two file inputs.  The pickers are modal
\* and a FileReader load takes far less time than picking a file: a second
\* file is picked only after the first one has loaded.
handleFileSelected(file) ==
  /\ SelectionScreen
  /\ readers = {}
  /\ ~InFlight(file)
  /\ attempts < MaxAttempts
  /\ IF validateFile(file) # NoError
     THEN /\ error' = validateFile(file)
          /\ UNCHANGED readers
     ELSE /\ readers' = readers \cup
               {[image |-> [photo |-> file, layers |-> <<>>],
                 config |-> overlayConfig]}
          /\ error' = error
  /\ UNCHANGED <<overlayConfig, configFetch, capturedImage, showOverlayCarousel,
                 selectedOverlayIndex, availableOverlays, imageOrientation, uploading, success, detecting, upload, dbVars,
                 attempts>>
  /\ UNCHANGED sideVars

\* reader.onload of handleFileSelected
readerOnload(r) ==
  /\ r \in readers
  /\ readers' = readers \ {r}
  /\ capturedImage' = r.image
  /\ error' = NoError
  /\ detecting' = IF IsNull(r.config) THEN detecting
                  ELSE StartProcess(r.image, r.config)
  /\ UNCHANGED <<overlayConfig, configFetch, showOverlayCarousel,
                 selectedOverlayIndex, availableOverlays, imageOrientation, uploading, success, upload, dbVars, attempts>>
  /\ UNCHANGED sideVars

\* processImageForOverlay with the carousel opening on "No overlay".
processImageForOverlay_NoDefault(t) ==
  /\ t \in detecting
  /\ detecting' = detecting \ {t}
  /\ LET orientation == detectOrientation(t.image)
         available == getAvailableOverlays(t.config, orientation)
     IN /\ imageOrientation' = orientation
        /\ availableOverlays' = available
        /\ IF Len(available) = 0
           THEN UNCHANGED <<selectedOverlayIndex, showOverlayCarousel>>
           ELSE IF t.config.mode = "random"
           THEN /\ \E randomIndex \in 0..(Len(available) - 1) :
                     selectedOverlayIndex' = randomIndex
                /\ UNCHANGED showOverlayCarousel
           ELSE /\ showOverlayCarousel' = TRUE
                /\ selectedOverlayIndex' = NoIdx
  /\ UNCHANGED <<overlayConfig, configFetch, capturedImage,
                 uploading, success, error, readers, upload, dbVars,
                 attempts>>
  /\ UNCHANGED sideVars

\* processImageForOverlay drawing the random index with Math.round.
processImageForOverlay_RoundedIndex(t) ==
  /\ t \in detecting
  /\ detecting' = detecting \ {t}
  /\ LET orientation == detectOrientation(t.image)
         available == getAvailableOverlays(t.config, orientation)
     IN /\ imageOrientation' = orientation
        /\ availableOverlays' = available
        /\ IF Len(available) = 0
           THEN UNCHANGED <<selectedOverlayIndex, showOverlayCarousel>>
           ELSE IF t.config.mode = "random"
           THEN /\ \E randomIndex \in 0..Len(available) :
                     selectedOverlayIndex' = randomIndex
                /\ UNCHANGED showOverlayCarousel
           ELSE /\ showOverlayCarousel' = TRUE
                /\ selectedOverlayIndex' = 0
  /\ UNCHANGED <<overlayConfig, configFetch, capturedImage,
                 uploading, success, error, readers, upload, dbVars, attempts>>
  /\ UNCHANGED sideVars

\* processImageForOverlay after `await detectOrientation(dataUrl)`.
processImageForOverlay(t) ==
  /\ t \in detecting
  /\ detecting' = detecting \ {t}
  /\ LET orientation == detectOrientation(t.image)
         available == getAvailableOverlays(t.config, orientation)
     IN /\ imageOrientation' = orientation
        /\ availableOverlays' = available
        /\ IF Len(available) = 0
           THEN UNCHANGED <<selectedOverlayIndex, showOverlayCarousel>>
           ELSE IF t.config.mode = "random"
           THEN /\ \E randomIndex \in 0..(Len(available) - 1) :
                     selectedOverlayIndex' = randomIndex
                /\ UNCHANGED showOverlayCarousel
           ELSE /\ showOverlayCarousel' = TRUE
                /\ selectedOverlayIndex' = 0
  /\ UNCHANGED <<overlayConfig, configFetch, capturedImage,
                 uploading, success, error, readers, upload, dbVars, attempts>>
  /\ UNCHANGED sideVars

\* handleRetake that leaves the eligible set and the chosen index in place,
\* like the success screen's button does.
handleRetake_KeepSelection ==
  /\ PreviewScreen /\ ~uploading
  /\ capturedImage' = NoImage
  /\ error' = NoError
  /\ showOverlayCarousel' = FALSE
  /\ UNCHANGED <<overlayConfig, configFetch, selectedOverlayIndex,
                 availableOverlays, imageOrientation,
                 uploading, success, taskVars, dbVars, attempts>>
  /\ UNCHANGED sideVars

handleRetake ==
  /\ PreviewScreen /\ ~uploading
  /\ capturedImage' = NoImage
  /\ error' = NoError
  /\ showOverlayCarousel' = FALSE
  /\ selectedOverlayIndex' = NoIdx
  /\ availableOverlays' = <<>>
  /\ UNCHANGED <<overlayConfig, configFetch, imageOrientation,
                 uploading, success, taskVars, dbVars, attempts>>
  /\ UNCHANGED sideVars

\* ------------------------------------------------------------- carousel
\* The slots the carousel renders: "No overlay" and one per eligible item.
CarouselSlots == {NoIdx} \cup (0..(Len(availableOverlays) - 1))

\* handleOverlaySelected that closes the carousel on selection.
handleOverlaySelected_Closes(index) ==
  /\ CarouselVisible
  /\ index \in CarouselSlots
  /\ selectedOverlayIndex' = index
  /\ showOverlayCarousel' = FALSE
  /\ UNCHANGED <<overlayConfig, configFetch, capturedImage,
                 availableOverlays, imageOrientation, uploading,
                 success, error, taskVars, dbVars, attempts>>
  /\ UNCHANGED sideVars

handleOverlaySelected(index) ==
  /\ CarouselVisible
  /\ index \in CarouselSlots
  /\ selectedOverlayIndex' = index
  /\ UNCHANGED <<overlayConfig, configFetch, capturedImage, showOverlayCarousel,
                 availableOverlays, imageOrientation, uploading,
                 success, error, taskVars, dbVars, attempts>>
  /\ UNCHANGED sideVars

\* The updater wrapping over the eligible items only.
NavigateIndex_NoExtraSlot(prev, direction, length) ==
  LET totalItems == IF length = 0 THEN 1 ELSE length
      current == IF prev = NoIdx THEN 0 ELSE prev + 1
      next == IF direction = "left"
              THEN (current - 1 + totalItems) % totalItems
              ELSE (current + 1) % totalItems
  IN IF next = 0 THEN NoIdx ELSE next - 1

\* The updater passed to setSelectedOverlayIndex by navigateCarousel.
NavigateIndex(prev, direction, length) ==
  LET totalItems == length + 1
      current == IF prev = NoIdx THEN 0 ELSE prev + 1
      next == IF direction = "left"
              THEN (current - 1 + totalItems) % totalItems
              ELSE (current + 1) % totalItems
  IN IF next = 0 THEN NoIdx ELSE next - 1

navigateCarousel(direction) ==
  /\ CarouselVisible
  /\ selectedOverlayIndex' =
       NavigateIndex(selectedOverlayIndex, direction, Len(availableOverlays))
  /\ UNCHANGED <<overlayConfig, configFetch, capturedImage, showOverlayCarousel,
                 availableOverlays, imageOrientation, uploading,
                 success, error, taskVars, dbVars, attempts>>
  /\ UNCHANGED sideVars

\* --------------------------------------------------------------- upload
\* pending/{token}/{uploadId}.jpg and pending/{token}/{uploadId}_original.jpg
ManipulatedPath(tokenId, uploadId) ==
  [dir |-> "pending", token |-> tokenId, id |-> uploadId, suffix |-> ".jpg"]
OriginalPath(tokenId, uploadId) ==
  [dir |-> "pending", token |-> tokenId, id |-> uploadId, suffix |-> "_original.jpg"]

\* Canvas lengths are JavaScript numbers; they are kept as exact fractions
\* [n |-> numerator, d |-> denominator] in lowest terms, d > 0.
RECURSIVE GCD(_, _)
GCD(a, b) == IF b = 0 THEN a ELSE GCD(b, a % b)
Abs(k) == IF k < 0 THEN -k ELSE k
Rat(n, d) ==
  LET g == GCD(Abs(n), d) IN [n |-> n \div g, d |-> d \div g]
RatInt(k) == [n |-> k, d |-> 1]
RatAdd(a, b) == Rat(a.n * b.d + b.n * a.d, a.d * b.d)
RatSub(a, b) == Rat(a.n * b.d - b.n * a.d, a.d * b.d)
RatMul(a, b) == Rat(a.n * b.n, a.d * b.d)
RatDiv(a, b) == Rat(a.n * b.d, a.d * b.n)
RatGt(a, b) == a.n * b.d > b.n * a.d
RatGeq(a, b) == a.n * b.d >= b.n * a.d

\* The overlay assets: what loadImageFromUrl(url) decodes to.
AssetWidth(url) ==
  CASE url = "wide.png" -> 4 [] url = "tall.png" -> 1
    [] url = "same.png" -> 8 [] OTHER -> 2
AssetHeight(url) ==
  CASE url = "wide.png" -> 1 [] url = "tall.png" -> 4
    [] url = "same.png" -> 6 [] OTHER -> 2

\* "Calculate overlay dimensions" with the full-bleed test `scale > 0.95`.
OverlayDimensions_StrictThreshold(baseImage, overlayImage, scale) ==
  IF RatGt(scale, Rat(95, 100))
  THEN [width |-> RatInt(baseImage.width), height |-> RatInt(baseImage.height)]
  ELSE LET imageAspect == Rat(baseImage.width, baseImage.height)
           overlayAspect == Rat(overlayImage.width, overlayImage.height)
       IN IF RatGt(overlayAspect, imageAspect)
          THEN LET overlayHeight == RatMul(RatInt(baseImage.height), scale)
               IN [width |-> RatMul(overlayHeight, overlayAspect),
                   height |-> overlayHeight]
          ELSE LET overlayWidth == RatMul(RatInt(baseImage.width), scale)
               IN [width |-> overlayWidth,
                   height |-> RatDiv(overlayWidth, overlayAspect)]

\* "Calculate overlay dimensions": overlayWidth and overlayHeight.
OverlayDimensions(baseImage, overlayImage, scale) ==
  IF RatGeq(scale, Rat(95, 100))
  THEN [width |-> RatInt(baseImage.width), height |-> RatInt(baseImage.height)]
  ELSE LET imageAspect == Rat(baseImage.width, baseImage.height)
           overlayAspect == Rat(overlayImage.width, overlayImage.height)
       IN IF RatGt(overlayAspect, imageAspect)
          THEN LET overlayHeight == RatMul(RatInt(baseImage.height), scale)
               IN [width |-> RatMul(overlayHeight, overlayAspect),
                   height |-> overlayHeight]
          ELSE LET overlayWidth == RatMul(RatInt(baseImage.width), scale)
               IN [width |-> overlayWidth,
                   height |-> RatDiv(overlayWidth, overlayAspect)]

\* "Calculate overlay position" keeping the overlay one pixel off the
\* right and bottom edges.
OverlayOrigin_Padded(position, baseImage, overlayWidth, overlayHeight) ==
  LET right == RatSub(RatSub(RatInt(baseImage.width), overlayWidth), RatInt(1))
      bottom == RatSub(RatSub(RatInt(baseImage.height), overlayHeight), RatInt(1))
      two == RatInt(2)
  IN CASE position = "center" ->
            [x |-> RatDiv(RatSub(RatInt(baseImage.width), overlayWidth), two),
             y |-> RatDiv(RatSub(RatInt(baseImage.height), overlayHeight), two)]
       [] position = "top-left" -> [x |-> RatInt(0), y |-> RatInt(0)]
       [] position = "top-right" -> [x |-> right, y |-> RatInt(0)]
       [] position = "bottom-left" -> [x |-> RatInt(0), y |-> bottom]
       [] position = "bottom-right" -> [x |-> right, y |-> bottom]
       [] OTHER -> [x |-> RatInt(0), y |-> RatInt(0)]

\* "Calculate overlay position": x and y of the switch on position.
OverlayOrigin(position, baseImage, overlayWidth, overlayHeight) ==
  LET right == RatSub(RatInt(baseImage.width), overlayWidth)
      bottom == RatSub(RatInt(baseImage.height), overlayHeight)
      two == RatInt(2)
  IN CASE position = "center" ->
            [x |-> RatDiv(right, two), y |-> RatDiv(bottom, two)]
       [] position = "top-left" -> [x |-> RatInt(0), y |-> RatInt(0)]
       [] position = "top-right" -> [x |-> right, y |-> RatInt(0)]
       [] position = "bottom-left" -> [x |-> RatInt(0), y |-> bottom]
       [] position = "bottom-right" -> [x |-> right, y |-> bottom]
       [] OTHER -> [x |-> RatInt(0), y |-> RatInt(0)]

\* applyOverlay, when every load succeeds: the base image with the overlay
\* drawn over it: ctx.globalAlpha and the arguments of ctx.drawImage.
\* options.opacity and options.scale are in percent.
applyOverlay(imageFile, overlayUrl, options) ==
  LET baseImage == [width |-> Width(imageFile.photo),
                    height |-> Height(imageFile.photo)]
      overlayImage == [width |-> AssetWidth(overlayUrl),
                       height |-> AssetHeight(overlayUrl)]
      box == OverlayDimensions(baseImage, overlayImage,
                               Rat(options.scale, 100))
      origin == OverlayOrigin(options.position, baseImage,
                              box.width, box.height)
  IN [imageFile EXCEPT !.layers =
        Append(@, [url |-> overlayUrl, position |-> options.position,
                   opacity |-> options.opacity, scale |-> options.scale,
                   x |-> origin.x, y |-> origin.y,
                   width |-> box.width, height |-> box.height])]

\* compressImage resizes and re-encodes; the picture it holds is the same.
compressImage(file) == file

\* The rejection of loadImageFromUrl.
OverlayLoadError == "Failed to load overlay"

\* catch (err) { setError(...) } finally { setUploading(false) }
UploadThrows(message) ==
  /\ error' = message
  /\ uploading' = FALSE
  /\ upload' = IdleUpload

handleUpload ==
  /\ PreviewScreen /\ ~uploading
  /\ attempts < MaxAttempts
  /\ attempts' = attempts + 1
  /\ showOverlayCarousel' = FALSE
  /\ uploading' = TRUE
  /\ error' = NoError
  /\ upload' = [IdleUpload EXCEPT
                  !.pc = "validate",
                  !.capturedImage = capturedImage,
                  !.showOverlayCarousel = showOverlayCarousel,
                  !.selectedOverlayIndex = selectedOverlayIndex,
                  !.availableOverlays = availableOverlays,
                  !.imageOrientation = imageOrientation]
  /\ UNCHANGED <<overlayConfig, configFetch, capturedImage, selectedOverlayIndex,
                 availableOverlays, imageOrientation, success,
                 readers, detecting, dbVars>>
  /\ UNCHANGED sideVars

\* Step 1 (validate the token row) and step 2 (fetch the captured image).
uploadValidate ==
  /\ upload.pc = "validate"
  /\ \/ UploadThrows("Database error validating token")
     \/ IF ~token.is_active
        THEN UploadThrows("This upload link is no longer active")
        ELSE IF token.expires_at # "null" /\ token.expires_at = "past"
        THEN UploadThrows("This upload link has expired")
        ELSE IF token.upload_count >= token.max_uploads
        THEN UploadThrows("Maximum uploads reached for this link")
        ELSE /\ upload' = [upload EXCEPT !.pc = "overlay",
                                         !.tokenData = token,
                                         !.originalBlob = upload.capturedImage,
                                         !.manipulatedBlob = upload.capturedImage]
             /\ UNCHANGED <<error, uploading>>
  /\ UNCHANGED <<overlayConfig, configFetch, capturedImage, showOverlayCarousel,
                 selectedOverlayIndex, availableOverlays, imageOrientation, success, readers, detecting, dbVars, attempts>>
  /\ UNCHANGED sideVars

\* The guard of step 3 without the test of the config's enabled flag.
OverlayToApply_IgnoreEnabled(u) ==
  /\ u.selectedOverlayIndex # NoIdx
  /\ Len(u.availableOverlays) > 0
  /\ u.selectedOverlayIndex + 1 \in DOMAIN u.availableOverlays
  /\ LET selectedOverlay == u.availableOverlays[u.selectedOverlayIndex + 1]
     IN /\ UrlOf(selectedOverlay, u.imageOrientation) # ""
        /\ SettingsOf(selectedOverlay, u.imageOrientation).enabled

\* The guard of step 3: the overlay config read with the token is enabled,
\* an index is selected and it names an item that is usable for the
\* orientation in state.
OverlayToApply(u) ==
  LET raw == u.tokenData.overlay_config
      processedOverlayConfig == IF IsNull(raw) THEN NullJson ELSE LoadConfig(raw)
  IN /\ ~IsNull(processedOverlayConfig)
     /\ processedOverlayConfig.enabled
     /\ u.selectedOverlayIndex # NoIdx
     /\ Len(u.availableOverlays) > 0
     /\ u.selectedOverlayIndex + 1 \in DOMAIN u.availableOverlays
     /\ LET selectedOverlay == u.availableOverlays[u.selectedOverlayIndex + 1]
        IN /\ UrlOf(selectedOverlay, u.imageOrientation) # ""
           /\ SettingsOf(selectedOverlay, u.imageOrientation).enabled

\* Step 3 without the try/catch around applyOverlay.
uploadOverlay_NoCatch ==
  /\ upload.pc = "overlay"
  /\ IF OverlayToApply(upload)
     THEN LET selectedOverlay ==
                upload.availableOverlays[upload.selectedOverlayIndex + 1]
              settings == SettingsOf(selectedOverlay, upload.imageOrientation)
              overlayUrl == UrlOf(selectedOverlay, upload.imageOrientation)
          IN \/ /\ Decodes(upload.originalBlob.photo)
                /\ upload' = [upload EXCEPT
                     !.pc = "compress",
                     !.applied = "ok",
                     !.selectedOverlay = selectedOverlay,
                     !.manipulatedBlob =
                        applyOverlay(upload.originalBlob, overlayUrl, settings),
                     !.hasOverlay = TRUE]
                /\ UNCHANGED pageVars
             \/ /\ UploadThrows(OverlayLoadError)
                /\ UNCHANGED <<overlayConfig, configFetch, capturedImage,
                               showOverlayCarousel, selectedOverlayIndex,
                               availableOverlays, imageOrientation, success>>
     ELSE /\ upload' = [upload EXCEPT !.pc = "compress"]
          /\ UNCHANGED pageVars
  /\ UNCHANGED <<readers, detecting, dbVars, attempts>>
  /\ UNCHANGED sideVars

\* Step 3 up to the compression: apply the overlay if one is selected.
uploadOverlay ==
  /\ upload.pc = "overlay"
  /\ IF OverlayToApply(upload)
     THEN LET selectedOverlay ==
                upload.availableOverlays[upload.selectedOverlayIndex + 1]
              settings == SettingsOf(selectedOverlay, upload.imageOrientation)
              overlayUrl == UrlOf(selectedOverlay, upload.imageOrientation)
          IN \/ /\ Decodes(upload.originalBlob.photo)
                /\ upload' = [upload EXCEPT
                     !.pc = "compress",
                     !.applied = "ok",
                     !.selectedOverlay = selectedOverlay,
                     !.manipulatedBlob =
                        applyOverlay(upload.originalBlob, overlayUrl, settings),
                     !.hasOverlay = TRUE]
             \/ \* applyOverlay rejects: caught, continue with the original
                upload' = [upload EXCEPT !.pc = "compress",
                                         !.applied = "failed",
                                         !.selectedOverlay = selectedOverlay]
     ELSE upload' = [upload EXCEPT !.pc = "compress"]
  /\ UNCHANGED <<pageVars, readers, detecting, dbVars, attempts>>
  /\ UNCHANGED sideVars

\* Compression of both versions, then step 4's id and paths.
uploadCompress ==
  /\ upload.pc = "compress"
  /\ \/ /\ Decodes(upload.originalBlob.photo)
        /\ upload' = [upload EXCEPT
                        !.pc = "storeManipulated",
                        !.manipulatedBlob = compressImage(upload.manipulatedBlob),
                        !.originalBlob = compressImage(upload.originalBlob),
                        !.uploadId = attempts]
        /\ UNCHANGED <<error, uploading>>
     \/ UploadThrows("Failed to load image")
  /\ UNCHANGED <<overlayConfig, configFetch, capturedImage, showOverlayCarousel,
                 selectedOverlayIndex, availableOverlays, imageOrientation, success, readers, detecting, dbVars, attempts>>
  /\ UNCHANGED sideVars

uploadStoreManipulated ==
  /\ upload.pc = "storeManipulated"
  /\ \/ /\ storage' = storage \cup
               {[path |-> ManipulatedPath(TokenId, upload.uploadId),
                 image |-> upload.manipulatedBlob]}
        /\ upload' = [upload EXCEPT !.pc = "storeOriginal"]
        /\ UNCHANGED <<error, uploading>>
     \/ /\ UploadThrows("Upload failed")
        /\ UNCHANGED storage
  /\ UNCHANGED <<overlayConfig, configFetch, capturedImage, showOverlayCarousel,
                 selectedOverlayIndex, availableOverlays, imageOrientation, success, readers, detecting, token,
                 pending_uploads, attempts>>
  /\ UNCHANGED sideVars

\* The original's upload may fail: that is only logged.  Then the preview
\* is switched to the manipulated version.
uploadStoreOriginal ==
  /\ upload.pc = "storeOriginal"
  /\ \/ /\ storage' = storage \cup
               {[path |-> OriginalPath(TokenId, upload.uploadId),
                 image |-> upload.originalBlob]}
        /\ upload' = [upload EXCEPT !.pc = "record", !.originalStored = TRUE]
     \/ /\ UNCHANGED storage
        /\ upload' = [upload EXCEPT !.pc = "record"]
  /\ capturedImage' = IF upload.hasOverlay THEN upload.manipulatedBlob
                      ELSE upload.capturedImage
  /\ UNCHANGED <<overlayConfig, configFetch, showOverlayCarousel,
                 selectedOverlayIndex, availableOverlays, imageOrientation, uploading, success, error, readers, detecting,
                 token, pending_uploads, attempts>>
  /\ UNCHANGED sideVars

\* metadata.overlay_name
OverlayName(u) ==
  IF u.hasOverlay /\ u.selectedOverlayIndex # NoIdx
  THEN u.availableOverlays[u.selectedOverlayIndex + 1].name
  ELSE NullName

\* The row as the earlier single-overlay page wrote it: has_overlay from the
\* config's enabled flag.
UploadRow_FromConfig(u) ==
  [id |-> u.uploadId,
   token_id |-> TokenId,
   storage_path |-> ManipulatedPath(TokenId, u.uploadId),
   metadata |-> [has_overlay |-> (~IsNull(u.tokenData.overlay_config)
                                   /\ LoadConfig(u.tokenData.overlay_config).enabled),
                 overlay_name |-> OverlayName(u),
                 orientation |-> u.imageOrientation,
                 original_path |-> OriginalPath(TokenId, u.uploadId),
                 manipulated_path |-> ManipulatedPath(TokenId, u.uploadId)]]

\* Step 5: the pending_uploads row.
UploadRow(u) ==
  [id |-> u.uploadId,
   token_id |-> TokenId,
   storage_path |-> ManipulatedPath(TokenId, u.uploadId),
   metadata |-> [has_overlay |-> u.hasOverlay,
                 overlay_name |-> OverlayName(u),
                 orientation |-> u.imageOrientation,
                 original_path |-> OriginalPath(TokenId, u.uploadId),
                 manipulated_path |-> ManipulatedPath(TokenId, u.uploadId)]]

uploadRecord ==
  /\ upload.pc = "record"
  /\ \/ /\ pending_uploads' = pending_uploads \cup {UploadRow(upload)}
        /\ upload' = [upload EXCEPT !.pc = "increment"]
        /\ UNCHANGED <<error, uploading>>
     \/ /\ UploadThrows("Failed to record upload")
        /\ UNCHANGED pending_uploads
  /\ UNCHANGED <<overlayConfig, configFetch, capturedImage, showOverlayCarousel,
                 selectedOverlayIndex, availableOverlays, imageOrientation, success, readers, detecting, token, storage, attempts>>
  /\ UNCHANGED sideVars

\* Step 6: upload_count is written from the value read in step 1; a failed
\* update is only logged.
uploadIncrement ==
  /\ upload.pc = "increment"
  /\ \/ token' = [token EXCEPT !.upload_count = upload.tokenData.upload_count + 1]
     \/ UNCHANGED token
  /\ upload' = [upload EXCEPT !.pc = "finish"]
  /\ UNCHANGED <<pageVars, readers, detecting, pending_uploads, storage, attempts>>
  /\ UNCHANGED sideVars

\* After the history save (whose errors are swallowed): setSuccess(true),
\* and the finally block.
uploadFinish ==
  /\ upload.pc = "finish"
  /\ success' = TRUE
  /\ uploading' = FALSE
  /\ upload' = IdleUpload
  /\ UNCHANGED <<overlayConfig, configFetch, capturedImage, showOverlayCarousel,
                 selectedOverlayIndex, availableOverlays, imageOrientation, error, readers, detecting, dbVars, attempts>>
  /\ UNCHANGED sideVars

\* The success screen's button ("upload another photo").
uploadAnother ==
  /\ success
  /\ capturedImage' = NoImage
  /\ success' = FALSE
  /\ error' = NoError
  /\ UNCHANGED <<overlayConfig, configFetch, showOverlayCarousel,
                 selectedOverlayIndex, availableOverlays, imageOrientation, uploading, taskVars, dbVars,
                 attempts>>
  /\ UNCHANGED sideVars

Files == Photos \cup {"notImage"}

Next ==
  \/ fetchTokenData
  \/ updateToken
  \/ \E file \in Files : handleFileSelected(file)
  \/ \E r \in readers : readerOnload(r)
  \/ \E t \in detecting : processImageForOverlay(t)
  \/ handleRetake
  \/ \E index \in CarouselSlots : handleOverlaySelected(index)
  \/ \E direction \in {"left", "right"} : navigateCarousel(direction)
  \/ handleUpload
  \/ uploadValidate
  \/ uploadOverlay
  \/ uploadCompress
  \/ uploadStoreManipulated
  \/ uploadStoreOriginal
  \/ uploadRecord
  \/ uploadIncrement
  \/ uploadFinish
  \/ uploadAnother

Spec == Init /\ [][Next]_vars

\* ================================================ the overlay functions
\* The overlay functions followed one call at a time, on the arguments the
\* pages pass them.
MaxItems == 3

ItemD ==
  [id |-> "d", name |-> "Delta", portraitUrl |-> "",
   landscapeUrl |-> "d-l.png",
   portrait |-> getDefaultOrientationSettings,
   landscape |-> Settings(FALSE, "center", 100, 100)]

Orientations == {"portrait", "landscape"}
OverlayPositions ==
  {"center", "top-left", "top-right", "bottom-left", "bottom-right"}

\* The sequences of at most n different elements of S.
SeqsOver(S, n) ==
  UNION { {seq \in [1..k -> S] :
             \A i, j \in 1..k : i # j => seq[i] # seq[j]} : k \in 0..n }

\* processImageForOverlay calls getAvailableOverlays with an enabled config
\* that has items.
EligibleCalls ==
  { [fn |-> "getAvailableOverlays",
     config |-> [enabled |-> TRUE, mode |-> mode, overlays |-> overlays],
     orientation |-> orientation, returned |-> FALSE, result |-> <<>>] :
      mode \in {"random", "user_choice"},
      overlays \in SeqsOver({ItemA, ItemB, ItemC, ItemD}, MaxItems) \ {<<>>},
      orientation \in Orientations }

\* detectOrientation is called with the data URL of a capture.
ClassifyCalls ==
  { [fn |-> "detectOrientation", image |-> [photo |-> photo, layers |-> <<>>],
     returned |-> FALSE, result |-> ""] :
      photo \in DecodablePhotos \cup {"X"} }

\* LegacyOverlayConfig values.
LegacyInputs ==
  [enabled : BOOLEAN,
   url : {[t |-> "string", v |-> "legacy.png"], [t |-> "string", v |-> ""]},
   position : OverlayPositions,
   opacity : {0, 80, 100},
   scale : {30, 95}]

\* migrateLegacyConfig is called with what isLegacyOverlayConfig accepts.
MigrateCalls ==
  { [fn |-> "migrateLegacyConfig", legacy |-> legacy,
     returned |-> FALSE, result |-> NullJson] : legacy \in LegacyInputs }

\* Values of the jsonb column overlay_config that isLegacyOverlayConfig is
\* called with: null, scalars, objects with and without url and overlays.
RawInputs ==
  { NullJson,
    [t |-> "string", v |-> "legacy.png"],
    [t |-> "string", v |-> ""],
    [t |-> "number", v |-> 0],
    [t |-> "number", v |-> 7],
    [t |-> "boolean", v |-> TRUE],
    [enabled |-> TRUE],
    [enabled |-> TRUE, url |-> [t |-> "number", v |-> 7]],
    [enabled |-> TRUE, url |-> NullJson],
    [enabled |-> TRUE, url |-> [enabled |-> TRUE]],
    [enabled |-> TRUE, url |-> [t |-> "string", v |-> "legacy.png"],
     overlays |-> <<>>],
    [enabled |-> TRUE, url |-> [t |-> "string", v |-> "legacy.png"],
     overlays |-> NullJson],
    [enabled |-> TRUE, url |-> [t |-> "string", v |-> ""]],
    [url |-> [t |-> "string", v |-> "legacy.png"]] }
    \cup OverlayConfigs \cup LegacyConfigs

IsLegacyCalls ==
  { [fn |-> "isLegacyOverlayConfig", raw |-> raw,
     returned |-> FALSE, result |-> FALSE] : raw \in RawInputs }

\* handleUpload calls applyOverlay with the captured picture, the asset URL
\* and the settings of the chosen item as they are stored in the jsonb
\* column: the form's sliders keep opacity and scale within 0..1, the
\* column does not (opacity 1.5, scale -0.1 and 1.2 stand for such values).
OverlayAssets == {"square.png", "wide.png", "tall.png", "same.png"}
ApplyCalls ==
  { [fn |-> "applyOverlay", imageFile |-> [photo |-> photo, layers |-> <<>>],
     overlayUrl |-> url,
     options |-> [position |-> position, opacity |-> opacity, scale |-> scale],
     returned |-> FALSE, result |-> NoImage] :
      photo \in DecodablePhotos, url \in OverlayAssets,
      position \in OverlayPositions, opacity \in {50, 100, 150},
      scale \in {-10, 5, 30, 50, 90, 95, 100, 120} }

Calls ==
  EligibleCalls \cup ClassifyCalls \cup MigrateCalls \cup IsLegacyCalls
    \cup ApplyCalls

\* The call returns.
Returns(value) ==
  /\ ~call.returned
  /\ call' = [call EXCEPT !.returned = TRUE, !.result = value]
  /\ UNCHANGED <<pageVars, taskVars, dbVars, attempts, admin,
                 link, history, approvals>>

callGetAvailableOverlays ==
  /\ call.fn = "getAvailableOverlays"
  /\ Returns(getAvailableOverlays(call.config, call.orientation))

callDetectOrientation ==
  /\ call.fn = "detectOrientation"
  /\ Returns(detectOrientation(call.image))

callMigrateLegacyConfig ==
  /\ call.fn = "migrateLegacyConfig"
  /\ Returns(migrateLegacyConfig(call.legacy))

callIsLegacyOverlayConfig ==
  /\ call.fn = "isLegacyOverlayConfig"
  /\ Returns(isLegacyOverlayConfig(call.raw))

callApplyOverlay ==
  /\ call.fn = "applyOverlay"
  /\ Returns(applyOverlay(call.imageFile, call.overlayUrl, call.options))

\* The capture page left as it is opened, on a link without overlays.
PageIdle ==
  /\ PageInit
  /\ token = TokenRow(TRUE, "null", NullJson)

FunctionsInit ==
  /\ PageIdle
  /\ admin = AdminInit
  /\ call \in Calls
  /\ link = NoClients
  /\ history = EmptyHistory
  /\ approvals = ApprovalsClosed

FunctionsNext ==
  \/ callGetAvailableOverlays
  \/ callDetectOrientation
  \/ callMigrateLegacyConfig
  \/ callIsLegacyOverlayConfig
  \/ callApplyOverlay

FunctionsSpec == FunctionsInit /\ [][FunctionsNext]_vars

\* ==================================================== the admin's form
\* The overlay section of the admin page's link form (Admin.tsx): the
\* config in state and the authoring operations on it.
MAX_OVERLAYS == 5

\* The form is followed for this many generated ids and this many edits
\* of items.
MaxUuids == 6
MaxEdits == 2

\* createEmptyOverlayItem(), with the id crypto.randomUUID() returns.
createEmptyOverlayItem(id) ==
  [id |-> id, name |-> "", portraitUrl |-> "", landscapeUrl |-> "",
   portrait |-> getDefaultOrientationSettings,
   landscape |-> getDefaultOrientationSettings]

\* { ...o, ...updates }
Merge(o, updates) ==
  [k \in DOMAIN o \cup DOMAIN updates |->
     IF k \in DOMAIN updates THEN updates[k] ELSE o[k]]

FormIds == {admin.overlayConfig.overlays[i].id :
              i \in DOMAIN admin.overlayConfig.overlays}

\* What the form's inputs pass as updates.
ItemUpdates == { [name |-> "Logo", portraitUrl |-> "logo-p.png"] }
SettingsUpdates ==
  { [enabled |-> FALSE], [position |-> "center", opacity |-> 100, scale |-> 95] }

AdminUnchanged ==
  UNCHANGED <<pageVars, taskVars, dbVars, attempts, call,
              link, history, approvals>>

\* addOverlayItem with the capacity test `length > MAX_OVERLAYS`.
addOverlayItem_OffByOne ==
  /\ IF Len(admin.overlayConfig.overlays) > MAX_OVERLAYS
     THEN admin' = [admin EXCEPT !.alert = "Maximum 5 overlays allowed"]
     ELSE /\ admin.uuids < MaxUuids
          /\ admin' = [admin EXCEPT
                         !.uuids = @ + 1,
                         !.overlayConfig.overlays =
                            Append(@, createEmptyOverlayItem(admin.uuids + 1))]
  /\ AdminUnchanged

addOverlayItem ==
  /\ IF Len(admin.overlayConfig.overlays) >= MAX_OVERLAYS
     THEN admin' = [admin EXCEPT !.alert = "Maximum 5 overlays allowed"]
     ELSE /\ admin.uuids < MaxUuids
          /\ admin' = [admin EXCEPT
                         !.uuids = @ + 1,
                         !.overlayConfig.overlays =
                            Append(@, createEmptyOverlayItem(admin.uuids + 1))]
  /\ AdminUnchanged

removeOverlayItem(id) ==
  /\ id \in FormIds
  /\ admin' = [admin EXCEPT !.overlayConfig.overlays =
                  SelectSeq(@, LAMBDA o : o.id # id)]
  /\ AdminUnchanged

\* updateOverlayItem merging the updates into every item of the list.
updateOverlayItem_AllItems(id, updates) ==
  /\ id \in FormIds
  /\ admin.edits < MaxEdits
  /\ admin' = [admin EXCEPT
                 !.edits = @ + 1,
                 !.overlayConfig.overlays =
                    [i \in DOMAIN @ |-> Merge(@[i], updates)]]
  /\ AdminUnchanged

updateOverlayItem(id, updates) ==
  /\ id \in FormIds
  /\ admin.edits < MaxEdits
  /\ admin' = [admin EXCEPT
                 !.edits = @ + 1,
                 !.overlayConfig.overlays =
                    [i \in DOMAIN @ |->
                       IF @[i].id = id THEN Merge(@[i], updates) ELSE @[i]]]
  /\ AdminUnchanged

updateOrientationSettings(overlayId, orientation, settings) ==
  /\ overlayId \in FormIds
  /\ admin.edits < MaxEdits
  /\ admin' = [admin EXCEPT
                 !.edits = @ + 1,
                 !.overlayConfig.overlays =
                    [i \in DOMAIN @ |->
                       IF @[i].id # overlayId THEN @[i]
                       ELSE [@[i] EXCEPT
                               ![orientation] = Merge(@, settings)]]]
  /\ AdminUnchanged

copySettingsToLandscape(overlayId) ==
  /\ overlayId \in FormIds
  /\ LET overlay == CHOOSE o \in {admin.overlayConfig.overlays[i] :
                                    i \in DOMAIN admin.overlayConfig.overlays} :
                       o.id = overlayId
     IN updateOverlayItem(overlayId,
                          [landscape |-> overlay.portrait,
                           landscapeUrl |-> overlay.portraitUrl])

AdminInitial ==
  /\ PageIdle
  /\ admin = AdminInit
  /\ call = NoCall
  /\ link = NoClients
  /\ history = EmptyHistory
  /\ approvals = ApprovalsClosed

AdminNext ==
  \/ addOverlayItem
  \/ \E id \in FormIds : removeOverlayItem(id)
  \/ \E id \in FormIds, updates \in ItemUpdates : updateOverlayItem(id, updates)
  \/ \E overlayId \in FormIds, orientation \in Orientations,
        settings \in SettingsUpdates :
        updateOrientationSettings(overlayId, orientation, settings)
  \/ \E overlayId \in FormIds : copySettingsToLandscape(overlayId)

AdminSpec == AdminInitial /\ [][AdminNext]_vars

\* ============================================== clients of one link
\* Several browsers upload through the same link at once, each either with
\* the capture page's handleUpload (its token validation, insert and count
\* update) or through the edge functions validate-upload-token and
\* complete-upload.  Each client makes one upload; its id is the client's.
MaxClients == 2
Clients == 1..MaxClients

\* Times in milliseconds since the epoch: the moment of the requests, and
\* `new Date(expires_at)`: new Date(null) is the epoch itself.
Now == 2
NewDate(value) ==
  CASE value = "null" -> 0
    [] value = "past" -> 1
    [] value = "future" -> 3

\* handleUpload, "Validate token status": the message it throws, if any.
HandleUploadRejection(tokenData) ==
  IF ~tokenData.is_active
  THEN "This upload link is no longer active"
  ELSE IF tokenData.expires_at # "null" /\ Now > NewDate(tokenData.expires_at)
  THEN "This upload link has expired"
  ELSE IF tokenData.upload_count >= tokenData.max_uploads
  THEN "Maximum uploads reached for this link"
  ELSE NoError

\* validate-upload-token: the error of its response, if any.
ValidateUploadTokenError(tokenRow) ==
  IF ~tokenRow.is_active
  THEN "Token is inactive"
  ELSE IF Now > NewDate(tokenRow.expires_at)
  THEN "Token has expired"
  ELSE IF tokenRow.upload_count >= tokenRow.max_uploads
  THEN "Maximum uploads reached"
  ELSE NoError

\* A client before its first request: the row its validation reads, the
\* validation's answer, and the row complete-upload looks up.
StartClient(flow) ==
  [flow |-> flow, pc |-> "start", tokenData |-> NullJson, response |-> NoError,
   looked |-> NullJson]

\* The row complete-upload inserts.
CompleteUploadRow(uploadId) ==
  [id |-> uploadId,
   token_id |-> TokenId,
   storage_path |-> ManipulatedPath(TokenId, uploadId),
   status |-> "pending",
   metadata |-> NullJson]

LinkUnchanged ==
  UNCHANGED <<pageVars, taskVars, storage, attempts, admin, call,
              history, approvals>>

\* handleUpload step 1 in another browser: select the token row, check it.
clientValidate(c) ==
  /\ link[c].flow = "page" /\ link[c].pc = "start"
  /\ LET rejection == HandleUploadRejection(token)
     IN link' = [link EXCEPT ![c] =
                   [@ EXCEPT !.tokenData = token,
                             !.response = rejection,
                             !.pc = IF rejection = NoError THEN "record"
                                    ELSE "rejected"]]
  /\ UNCHANGED <<token, pending_uploads>>
  /\ LinkUnchanged

\* handleUpload step 5: the insert into pending_uploads.
clientRecord(c) ==
  /\ link[c].flow = "page" /\ link[c].pc = "record"
  /\ \/ /\ pending_uploads' = pending_uploads \cup
               {UploadRow([IdleUpload EXCEPT !.uploadId = c])}
        /\ link' = [link EXCEPT ![c].pc = "increment"]
     \/ /\ UNCHANGED pending_uploads
        /\ link' = [link EXCEPT ![c].pc = "failed"]
  /\ UNCHANGED token
  /\ LinkUnchanged

\* handleUpload step 6: upload_count is written from the value read in
\* step 1; a failed update is only logged.
clientIncrement(c) ==
  /\ link[c].flow = "page" /\ link[c].pc = "increment"
  /\ \/ token' = [token EXCEPT
                    !.upload_count = link[c].tokenData.upload_count + 1]
     \/ UNCHANGED token
  /\ link' = [link EXCEPT ![c].pc = "done"]
  /\ UNCHANGED pending_uploads
  /\ LinkUnchanged

\* The validate-upload-token handler answers a client's request.
validateUploadToken(c) ==
  /\ link[c].flow = "edge" /\ link[c].pc = "start"
  /\ LET rejection == ValidateUploadTokenError(token)
     IN link' = [link EXCEPT ![c] =
                   [@ EXCEPT !.tokenData = token,
                             !.response = rejection,
                             !.pc = IF rejection = NoError THEN "signed"
                                    ELSE "rejected"]]
  /\ UNCHANGED <<token, pending_uploads>>
  /\ LinkUnchanged

\* The complete-upload handler: the token lookup and the insert.
completeUploadInsert(c) ==
  /\ link[c].flow = "edge" /\ link[c].pc = "signed"
  /\ \/ /\ pending_uploads' = pending_uploads \cup {CompleteUploadRow(c)}
        /\ link' = [link EXCEPT ![c].pc = "count", ![c].looked = token]
     \/ /\ UNCHANGED pending_uploads
        /\ link' = [link EXCEPT ![c].pc = "failed"]
  /\ UNCHANGED token
  /\ LinkUnchanged

\* The complete-upload handler: the update of upload_count from the row it
\* looked up; a failed update is only logged.
completeUploadCount(c) ==
  /\ link[c].flow = "edge" /\ link[c].pc = "count"
  /\ \/ token' = [token EXCEPT
                    !.upload_count = link[c].looked.upload_count + 1]
     \/ UNCHANGED token
  /\ link' = [link EXCEPT ![c].pc = "done"]
  /\ UNCHANGED pending_uploads
  /\ LinkUnchanged

LinkInit ==
  /\ PageInit
  /\ admin = AdminInit
  /\ call = NoCall
  /\ link \in [Clients -> {StartClient("page"), StartClient("edge")}]
  /\ history = EmptyHistory
  /\ approvals = ApprovalsClosed

LinkNext ==
  \E c \in Clients :
    \/ clientValidate(c)
    \/ clientRecord(c)
    \/ clientIncrement(c)
    \/ validateUploadToken(c)
    \/ completeUploadInsert(c)
    \/ completeUploadCount(c)

LinkSpec == LinkInit /\ [][LinkNext]_vars

\* ================================================== upload history
\* The IndexedDB store 'uploads' (key path id, index on timestamp) that
\* saveToHistory fills.  The store outlives the page, so the page may find
\* it holding earlier saves.  Date.now() is taken not to run backwards.
MAX_HISTORY_ITEMS == 10
MaxSaves == 3

\* `upload-${Date.now()}-${random}` with the timestamp read right after.
HistoryItem(idTime, random, timestamp) ==
  [id |-> <<idTime, random>>, timestamp |-> timestamp]

\* The store after `saved` earlier saves, one per millisecond.
HistoryAfter(saved) ==
  [store |-> {HistoryItem(i, 0, i) : i \in 1..saved},
   evicted |-> {},
   now |-> saved,
   saves |-> 0]

\* The order of the index 'timestamp': by timestamp, then by primary key.
IndexBefore(a, b) ==
  \/ a.timestamp < b.timestamp
  \/ /\ a.timestamp = b.timestamp
     /\ \/ a.id[1] < b.id[1]
        \/ a.id[1] = b.id[1] /\ a.id[2] < b.id[2]

\* index.openCursor(): the first record of the index.
CursorFirst(store) ==
  CHOOSE a \in store : \A b \in store \ {a} : IndexBefore(a, b)

\* index.openCursor(null, 'prev'): the last record of the index.
CursorLast(store) ==
  CHOOSE a \in store : \A b \in store \ {a} : IndexBefore(b, a)

RECURSIVE EvictNewest(_, _)
EvictNewest(store, deleteCount) ==
  IF deleteCount > 0 /\ store # {}
  THEN EvictNewest(store \ {CursorLast(store)}, deleteCount - 1)
  ELSE store

\* The cursor loop: delete the cursor's record, count down, continue.
RECURSIVE EvictOldest(_, _)
EvictOldest(store, deleteCount) ==
  IF deleteCount > 0 /\ store # {}
  THEN EvictOldest(store \ {CursorFirst(store)}, deleteCount - 1)
  ELSE store

\* The records left by the transaction's count handler.
CleanedUp(store) ==
  LET count == Cardinality(store)
  IN IF count > MAX_HISTORY_ITEMS
     THEN EvictOldest(store, count - MAX_HISTORY_ITEMS)
     ELSE store

HistoryUnchanged ==
  UNCHANGED <<pageVars, taskVars, dbVars, attempts, admin, call, link,
              approvals>>

\* One call of saveToHistory, which is one readwrite transaction: add,
\* count, delete the oldest beyond the limit.  An add whose id is already
\* in the store fails and aborts the transaction; the error is logged.
saveToHistory(idTick, timestampTick, random) ==
  /\ history.saves < MaxSaves
  /\ LET idTime == history.now + idTick
         timestamp == idTime + timestampTick
         item == HistoryItem(idTime, random, timestamp)
         added == history.store \cup {item}
         kept == CleanedUp(added)
     IN IF \E old \in history.store : old.id = item.id
        THEN history' = [history EXCEPT !.now = timestamp,
                                        !.saves = @ + 1]
        ELSE history' = [store |-> kept,
                         evicted |-> history.evicted \cup (added \ kept),
                         now |-> timestamp,
                         saves |-> history.saves + 1]
  /\ HistoryUnchanged

HistoryInit ==
  /\ PageInit
  /\ admin = AdminInit
  /\ call = NoCall
  /\ link = NoClients
  /\ history \in {HistoryAfter(saved) : saved \in 0..MAX_HISTORY_ITEMS}
  /\ approvals = ApprovalsClosed

HistoryNext ==
  \E idTick \in {0, 1}, timestampTick \in {0, 1}, random \in {0, 1} :
    saveToHistory(idTick, timestampTick, random)

HistorySpec == HistoryInit /\ [][HistoryNext]_vars

\* ================================================== approvals page
\* The Approvals page over the stored pending_uploads rows: its filter, the
\* list it shows, the loadUploads requests and status updates under way.
\* A request is answered some time after it was sent, and answers arrive
\* in any order.
MaxClicks == 3
UploadIds == {1, 2}
Statuses == {"pending", "approved", "rejected"}

\* A loadUploads call under way: the filter of the render that made the
\* call, and the rows its select returned once it has run.
LoadRequest(filter) == [filter |-> filter, selected |-> FALSE, data |-> {}]

\* The sequence without its i-th element.
WithoutAt(seq, i) ==
  [k \in 1..(Len(seq) - 1) |-> IF k < i THEN seq[k] ELSE seq[k + 1]]

\* The page as it mounts: useState defaults, and the effect's loadUploads.
ApprovalsMounted(stored) ==
  [open |-> TRUE,
   status |-> stored,
   filter |-> "pending",
   uploads |-> {},
   loading |-> TRUE,
   loads |-> <<LoadRequest("pending")>>,
   updates |-> <<>>,
   applied |-> {},
   clicks |-> 0]

ApprovalsUnchanged ==
  UNCHANGED <<pageVars, taskVars, dbVars, attempts, admin, call, link,
              history>>

\* A filter button: setFilter, and the effect on [filter] calls loadUploads.
\* Neither uploads nor loading changes until that call resolves.
setFilter(filter) ==
  /\ approvals.clicks < MaxClicks
  /\ filter # approvals.filter
  /\ approvals' = [approvals EXCEPT
                     !.filter = filter,
                     !.loads = Append(@, LoadRequest(filter)),
                     !.clicks = @ + 1]
  /\ ApprovalsUnchanged

\* loadUploads: the select `.eq('status', filter)` runs on the stored rows.
loadUploadsSelect(i) ==
  /\ i \in DOMAIN approvals.loads
  /\ ~approvals.loads[i].selected
  /\ approvals' = [approvals EXCEPT
                     !.loads[i] =
                       [@ EXCEPT !.selected = TRUE,
                                 !.data = {id \in UploadIds :
                                             approvals.status[id]
                                               = approvals.loads[i].filter}]]
  /\ ApprovalsUnchanged

\* loadUploads: the answer arrives; setUploads(data) unless it is an error,
\* setLoading(false) in either case.
loadUploads(i) ==
  /\ i \in DOMAIN approvals.loads
  /\ approvals.loads[i].selected
  /\ \/ approvals' = [approvals EXCEPT
                        !.uploads = approvals.loads[i].data,
                        !.loading = FALSE,
                        !.loads = WithoutAt(@, i)]
     \/ approvals' = [approvals EXCEPT
                        !.loading = FALSE,
                        !.loads = WithoutAt(@, i)]
  /\ ApprovalsUnchanged

\* The card's buttons exist when the list is rendered and showActions holds.
ShowsActions(uploadId) ==
  /\ ~approvals.loading
  /\ uploadId \in approvals.uploads
  /\ approvals.filter = "pending"

\* Approve or Reject on a card: updateUploadStatus sends its update.
updateUploadStatus(uploadId, status) ==
  /\ approvals.clicks < MaxClicks
  /\ ShowsActions(uploadId)
  /\ approvals' = [approvals EXCEPT
                     !.updates = Append(@, [id |-> uploadId,
                                            status |-> status]),
                     !.clicks = @ + 1]
  /\ ApprovalsUnchanged

\* The update `.eq('id', uploadId)` runs on the stored row and
\* updateUploadStatus goes on to loadUploads, with the filter of the render
\* whose button was pressed; on an error it only logs.
updateApplied(j) ==
  /\ j \in DOMAIN approvals.updates
  /\ LET update == approvals.updates[j]
     IN \/ approvals' = [approvals EXCEPT
                           !.status[update.id] = update.status,
                           !.applied = @ \cup
                              {<<approvals.status[update.id], update.status>>},
                           !.updates = WithoutAt(@, j),
                           !.loads = Append(@, LoadRequest("pending"))]
        \/ approvals' = [approvals EXCEPT !.updates = WithoutAt(@, j)]
  /\ ApprovalsUnchanged

ApprovalsInit ==
  /\ PageInit
  /\ admin = AdminInit
  /\ call = NoCall
  /\ link = NoClients
  /\ history = EmptyHistory
  /\ approvals \in {ApprovalsMounted(stored) :
                      stored \in [UploadIds -> Statuses]}

ApprovalsNext ==
  \/ \E filter \in Statuses : setFilter(filter)
  \/ \E i \in 1..(MaxClicks + 1) : loadUploadsSelect(i)
  \/ \E i \in 1..(MaxClicks + 1) : loadUploads(i)
  \/ \E uploadId \in UploadIds, status \in {"approved", "rejected"} :
       updateUploadStatus(uploadId, status)
  \/ \E j \in 1..MaxClicks : updateApplied(j)

ApprovalsSpec == ApprovalsInit /\ [][ApprovalsNext]_vars

\* ================================================================ claims
\* The handleUpload call in flight has passed step 3 (the overlay step).
PastOverlay ==
  upload.pc \in {"compress", "storeManipulated", "storeOriginal", "record",
                 "increment", "finish"}
\* It has inserted its pending_uploads row.
Recorded == upload.pc \in {"increment", "finish"}

\* The row and the stored manipulated object of the upload in flight.
RowOf(u) == CHOOSE row \in pending_uploads : row.id = u.uploadId
HasRow(u) == \E row \in pending_uploads : row.id = u.uploadId
StoredAt(path, image) == [path |-> path, image |-> image] \in storage

\* processedOverlayConfig of the upload in flight.
ProcessedOverlayConfig(u) ==
  IF IsNull(u.tokenData.overlay_config) THEN NullJson
  ELSE LoadConfig(u.tokenData.overlay_config)
DisabledAtUpload(u) ==
  IsNull(ProcessedOverlayConfig(u)) \/ ~ProcessedOverlayConfig(u).enabled

\* C1: a failure of applyOverlay during handleUpload does not propagate: the
\* page never shows the overlay's load error, the upload goes on with the
\* manipulated blob equal to the original and hasOverlay false, and the row
\* it records says has_overlay = false, overlay_name = null and points at
\* a stored object holding the original picture.
C1_OverlayFailureTolerated ==
  /\ error # OverlayLoadError
  /\ upload.applied = "failed" =>
       /\ PastOverlay
       /\ upload.manipulatedBlob = upload.originalBlob
       /\ ~upload.hasOverlay
       /\ Recorded =>
            /\ HasRow(upload)
            /\ ~RowOf(upload).metadata.has_overlay
            /\ RowOf(upload).metadata.overlay_name = NullName
            /\ StoredAt(RowOf(upload).storage_path, upload.originalBlob)

\* C1 witness: an upload whose applyOverlay call failed has been stored
\* and recorded.
C1_Witness ==
  /\ upload.applied = "failed"
  /\ upload.pc = "increment"
  /\ HasRow(upload)

\* C2: when the config read at upload time is disabled, or the eligible set
\* in state is empty, or the chosen index is none, applyOverlay is not
\* invoked, the manipulated blob is the original, and the recorded row has
\* has_overlay = false and overlay_name = null.
C2_NoOverlayMeansOriginal ==
  (/\ PastOverlay
   /\ \/ DisabledAtUpload(upload)
      \/ Len(upload.availableOverlays) = 0
      \/ upload.selectedOverlayIndex = NoIdx)
  => /\ upload.applied = "no"
     /\ upload.manipulatedBlob = upload.originalBlob
     /\ ~upload.hasOverlay
     /\ Recorded =>
          /\ HasRow(upload)
          /\ ~RowOf(upload).metadata.has_overlay
          /\ RowOf(upload).metadata.overlay_name = NullName
          /\ StoredAt(RowOf(upload).storage_path, upload.originalBlob)

\* C2 witness: an overlay is selected from a non-empty eligible set but the
\* config read at upload time is disabled, and the upload was recorded.
C2_Witness ==
  /\ upload.pc = "increment"
  /\ DisabledAtUpload(upload)
  /\ upload.selectedOverlayIndex # NoIdx
  /\ Len(upload.availableOverlays) > 0

\* C3 (as claimed): every pending_uploads row has exactly two objects in
\* storage, the manipulated image at storage_path and the original image at
\* original_path.
C3_TwoArtifactsPerRow ==
  \A row \in pending_uploads :
    /\ \E o \in storage : o.path = row.storage_path
    /\ \E o \in storage : o.path = row.metadata.original_path
    /\ Cardinality({o \in storage : o.path.id = row.id}) = 2

\* C4: the recorded has_overlay is true exactly when applyOverlay composited
\* an overlay onto the stored manipulated image; overlay_name is then the
\* name of the composited overlay, and null otherwise.
C4_ProvenanceMatchesCompositing ==
  Recorded =>
    /\ HasRow(upload)
    /\ LET row == RowOf(upload)
           overlay == upload.selectedOverlay
           composited ==
             applyOverlay(upload.originalBlob,
                          UrlOf(overlay, upload.imageOrientation),
                          SettingsOf(overlay, upload.imageOrientation))
       IN /\ row.metadata.has_overlay = (upload.applied = "ok")
          /\ upload.applied = "ok" =>
               /\ StoredAt(row.storage_path, composited)
               /\ row.metadata.overlay_name = overlay.name
          /\ upload.applied # "ok" =>
               /\ StoredAt(row.storage_path, upload.originalBlob)
               /\ row.metadata.overlay_name = NullName

\* C4 witness: a recorded upload with a composited overlay.
C4_Witness ==
  /\ upload.pc = "increment"
  /\ upload.applied = "ok"
  /\ RowOf(upload).metadata.has_overlay

\* The eligible sequence of the capture an upload was started for: the one
\* processImageForOverlay computes from the page's config and that picture.
EligibleFor(image) ==
  IF IsNull(overlayConfig) \/ ~overlayConfig.enabled THEN <<>>
  ELSE getAvailableOverlays(overlayConfig, detectOrientation(image))

\* C5 (as claimed): in user_choice mode, when the upload is confirmed from
\* the carousel with index i selected, the overlay handed to applyOverlay
\* and the recorded overlay name are those of item i of the eligible
\* sequence computed for the captured picture.
C5_ConfirmedIndexSelectsEligibleItem ==
  (/\ PastOverlay
   /\ upload.showOverlayCarousel
   /\ ~IsNull(overlayConfig)
   /\ overlayConfig.mode = "user_choice"
   /\ upload.selectedOverlayIndex # NoIdx
   /\ upload.applied # "no")
  => LET eligible == EligibleFor(upload.capturedImage)
         i == upload.selectedOverlayIndex
     IN /\ i < Len(eligible)
        /\ upload.selectedOverlay = eligible[i + 1]
        /\ (Recorded /\ upload.applied = "ok") =>
             RowOf(upload).metadata.overlay_name = eligible[i + 1].name

\* C6 (as claimed): with the link's config enabled, in random mode and with
\* exactly one overlay eligible for the picture's orientation, an upload
\* of that capture has chosen index 0 and hands that overlay to
\* applyOverlay, whenever the user pressed Upload.
C6_SingletonAlwaysSelected ==
  (/\ PastOverlay
   /\ ~DisabledAtUpload(upload)
   /\ overlayConfig = ProcessedOverlayConfig(upload)
   /\ overlayConfig.mode = "random"
   /\ Len(EligibleFor(upload.capturedImage)) = 1)
  => /\ upload.selectedOverlayIndex = 0
     /\ upload.applied # "no"
     /\ upload.selectedOverlay = EligibleFor(upload.capturedImage)[1]

\* C7: a handleRetake step ends with no captured image, an empty eligible
\* set, no chosen index and the carousel hidden, whatever the selection
\* state it started from.
C7_RetakeResetsSelection ==
  [][handleRetake =>
       /\ capturedImage' = NoImage
       /\ availableOverlays' = <<>>
       /\ selectedOverlayIndex' = NoIdx
       /\ ~showOverlayCarousel']_vars

\* C7 witness: after a capture was processed for the carousel (landscape
\* picture, user_choice), the page is back at Unselected.
C7_Witness ==
  /\ ~IsNull(overlayConfig)
  /\ overlayConfig.enabled /\ overlayConfig.mode = "user_choice"
  /\ imageOrientation = "landscape"
  /\ capturedImage = NoImage
  /\ availableOverlays = <<>>
  /\ selectedOverlayIndex = NoIdx
  /\ ~showOverlayCarousel
  /\ attempts = 0

RECURSIVE RightTimes(_, _, _)
RightTimes(index, length, n) ==
  IF n = 0 THEN index
  ELSE RightTimes(NavigateIndex(index, "right", length), length, n - 1)

\* C9: for the eligible set in state, of size n, navigation is cyclic over
\* the n+1 slots: n+1 times 'right' returns to the start, 'right' from the
\* last item gives "no overlay", 'right' from "no overlay" gives item 0 and
\* 'left' from "no overlay" gives the last item; 'left' undoes 'right'.
C9_NavigationIsCyclic ==
  LET n == Len(availableOverlays)
  IN /\ \A start \in CarouselSlots :
          /\ RightTimes(start, n, n + 1) = start
          /\ \A k \in 1..n : RightTimes(start, n, k) # start
          /\ NavigateIndex(start, "right", n) \in CarouselSlots
          /\ NavigateIndex(NavigateIndex(start, "right", n), "left", n) = start
     /\ n > 0 =>
          /\ NavigateIndex(n - 1, "right", n) = NoIdx
          /\ NavigateIndex(NoIdx, "right", n) = 0
          /\ NavigateIndex(NoIdx, "left", n) = n - 1

\* C9 witness: a carousel over two eligible items with the last item
\* highlighted.
C9_Witness ==
  /\ CarouselVisible
  /\ Len(availableOverlays) = 2
  /\ selectedOverlayIndex = 1

\* C10: when processImageForOverlay finishes in user_choice mode with a
\* non-empty eligible set, the carousel flag is set, the carousel has
\* |eligible| + 1 slots, item 0 is highlighted, and the carousel is on
\* screen if the processed picture is still the captured one.
C10_CarouselOpensOnFirstItem ==
  [][\A t \in detecting :
       LET eligible == getAvailableOverlays(t.config, detectOrientation(t.image))
       IN (/\ processImageForOverlay(t)
           /\ t.config.mode = "user_choice"
           /\ Len(eligible) > 0)
          => /\ showOverlayCarousel'
             /\ availableOverlays' = eligible
             /\ Cardinality(CarouselSlots') = Len(eligible) + 1
             /\ selectedOverlayIndex' = 0
             /\ (capturedImage = t.image /\ ~success) => CarouselVisible']_vars

\* C10 witness: the carousel is on screen over two eligible items with
\* item 0 highlighted and nothing else pending.
C10_Witness ==
  /\ CarouselVisible
  /\ overlayConfig.mode = "user_choice"
  /\ Len(availableOverlays) = 2
  /\ selectedOverlayIndex = 0
  /\ detecting = {}
  /\ ~uploading

\* C11: when processImageForOverlay finishes in random mode with a non-empty
\* eligible set, the chosen index i satisfies 0 <= i < |eligible|, and the
\* carousel is neither opened nor on screen: the selection needs no user
\* interaction.
C11_RandomIndexInRange ==
  [][\A t \in detecting :
       LET eligible == getAvailableOverlays(t.config, detectOrientation(t.image))
       IN (/\ processImageForOverlay(t)
           /\ t.config.mode = "random"
           /\ Len(eligible) > 0)
          => /\ availableOverlays' = eligible
             /\ 0 <= selectedOverlayIndex'
             /\ selectedOverlayIndex' < Len(eligible)
             /\ ~showOverlayCarousel'
             /\ ~CarouselVisible']_vars

\* C11 witness: a capture processed in random mode over two eligible items
\* with the second one drawn, the preview on screen without the carousel.
C11_Witness ==
  /\ ~IsNull(overlayConfig)
  /\ overlayConfig.enabled /\ overlayConfig.mode = "random"
  /\ PreviewScreen
  /\ detecting = {}
  /\ Len(availableOverlays) = 2
  /\ selectedOverlayIndex = 1
  /\ ~showOverlayCarousel
  /\ ~uploading

\* A call of fn has returned.
Returned(fn) == call.fn = fn /\ call.returned

\* C12: getAvailableOverlays(config, orientation) returns exactly the items
\* of config.overlays whose settings for the orientation are enabled and
\* whose asset URL for the orientation is not empty, in their original
\* relative order.
C12_EligibleIsOrderedFilter ==
  Returned("getAvailableOverlays") =>
    LET items == call.config.overlays
        o == call.orientation
        r == call.result
        Usable(item) ==
          /\ item[o].enabled
          /\ (IF o = "portrait" THEN item.portraitUrl ELSE item.landscapeUrl) # ""
        kept == {i \in DOMAIN items : Usable(items[i])}
    IN /\ Len(r) = Cardinality(kept)
       /\ \E f \in [DOMAIN r -> kept] :
            /\ \A a, b \in DOMAIN r : a < b => f[a] < f[b]
            /\ \A a \in DOMAIN r : r[a] = items[f[a]]

\* C12 witness: of three items the middle one is dropped and the other two
\* are returned in their order.
C12_Witness ==
  /\ Returned("getAvailableOverlays")
  /\ Len(call.config.overlays) = 3
  /\ call.result = <<call.config.overlays[1], call.config.overlays[3]>>

C14_ClassifyByHeightAndWidth ==
  /\ (call.fn = "detectOrientation" /\ ~call.returned)
       => ENABLED callDetectOrientation
  /\ Returned("detectOrientation") =>
       LET photo == call.image.photo
           w == Width(photo)
           h == Height(photo)
       IN /\ call.result \in Orientations
          /\ ~Decodes(photo) => call.result = "portrait"
          /\ (Decodes(photo) /\ h > w) => call.result = "portrait"
          /\ (Decodes(photo) /\ w > h) => call.result = "landscape"
          /\ (Decodes(photo) /\ w = h) => call.result = "landscape"

\* C14 witness: a square picture was classified as landscape.
C14_Witness ==
  /\ Returned("detectOrientation")
  /\ Decodes(call.image.photo)
  /\ Width(call.image.photo) = Height(call.image.photo)
  /\ call.result = "landscape"

\* C15: starting from the default config, every authoring step (add,
\* remove, update item, update one orientation's settings, copy portrait to
\* landscape) leaves at most MAX_OVERLAYS items in the form, and an add
\* attempted with MAX_OVERLAYS items shows the capacity alert and leaves
\* the config unchanged.
C15_AtMostFiveOverlays ==
  [][/\ Len(admin.overlayConfig.overlays) <= MAX_OVERLAYS
        => Len(admin'.overlayConfig.overlays) <= MAX_OVERLAYS
     /\ (addOverlayItem /\ Len(admin.overlayConfig.overlays) = MAX_OVERLAYS)
        => /\ admin'.overlayConfig = admin.overlayConfig
           /\ admin'.alert = "Maximum 5 overlays allowed"]_vars

\* C15 witness: the form holds MAX_OVERLAYS items, one of them edited and
\* one of the first ones removed, and an add has been rejected.
C15_Witness ==
  /\ Len(admin.overlayConfig.overlays) = MAX_OVERLAYS
  /\ admin.uuids > MAX_OVERLAYS
  /\ admin.edits > 0
  /\ admin.alert = "Maximum 5 overlays allowed"

\* C16: migrateLegacyConfig(L) returns a config with mode random and exactly
\* one item, named "Default Overlay", whose portraitUrl and landscapeUrl are
\* L.url and whose portrait and landscape settings carry L's position,
\* opacity and scale.
C16_MigrationIsLossless ==
  Returned("migrateLegacyConfig") =>
    LET L == call.legacy
        r == call.result
    IN /\ r.mode = "random"
       /\ Len(r.overlays) = 1
       /\ r.overlays[1].name = "Default Overlay"
       /\ r.overlays[1].portraitUrl = L.url.v
       /\ r.overlays[1].landscapeUrl = L.url.v
       /\ \A o \in Orientations :
            /\ r.overlays[1][o].position = L.position
            /\ r.overlays[1][o].opacity = L.opacity
            /\ r.overlays[1][o].scale = L.scale

\* C16 witness: a disabled legacy config placed top-left at full size and
\* zero opacity has been migrated.
C16_Witness ==
  /\ Returned("migrateLegacyConfig")
  /\ ~call.legacy.enabled
  /\ call.legacy.position = "top-left"
  /\ call.legacy.opacity = 0
  /\ call.legacy.scale = 95
  /\ Len(call.result.overlays) = 1

\* C17: what migrateLegacyConfig returns for a legacy config is not
\* detected as legacy by isLegacyOverlayConfig.
C17_MigratedIsNotLegacy ==
  Returned("migrateLegacyConfig") => ~isLegacyOverlayConfig(call.result)

\* C17 witness: a value detected as legacy (here with the empty url of the
\* column default) has been migrated.
C17_Witness ==
  /\ Returned("migrateLegacyConfig")
  /\ isLegacyOverlayConfig(call.legacy)
  /\ call.legacy.url.v = ""
  /\ "overlays" \in DOMAIN call.result

\* C18: isLegacyOverlayConfig(raw) is true exactly when raw is an object
\* (not null, not a scalar) with a url field holding a string and without
\* an overlays field.
C18_LegacyDetectedStructurally ==
  Returned("isLegacyOverlayConfig") =>
    LET raw == call.raw
        isObject == ~IsNull(raw) /\ ~IsPrimitive(raw)
        hasStringUrl ==
          /\ "url" \in DOMAIN raw
          /\ ~IsNull(raw.url)
          /\ IsPrimitive(raw.url)
          /\ raw.url.t = "string"
    IN call.result <=>
         (isObject /\ hasStringUrl /\ ~("overlays" \in DOMAIN raw))

\* C18 witness: an object whose url is a number was found not to be legacy.
C18_Witness ==
  /\ Returned("isLegacyOverlayConfig")
  /\ ~IsNull(call.raw) /\ ~IsPrimitive(call.raw)
  /\ "url" \in DOMAIN call.raw
  /\ ~IsNull(call.raw.url) /\ IsPrimitive(call.raw.url)
  /\ call.raw.url.t = "number"
  /\ ~call.result

\* The overlay drawn by the applyOverlay call that returned.
DrawnLayer == call.result.layers[Len(call.result.layers)]

\* C19: in applyOverlay, when scale >= 0.95 the overlay is drawn with
\* exactly the base image's width and height, whatever the size of the
\* overlay asset.
C19_FullBleedAtNinetyFive ==
  (Returned("applyOverlay") /\ call.options.scale >= 95) =>
    /\ DrawnLayer.width = RatInt(Width(call.imageFile.photo))
    /\ DrawnLayer.height = RatInt(Height(call.imageFile.photo))

\* C19 witness: a wide asset (4x1) was drawn at scale 0.95 on the portrait
\* photo (3x4).
C19_Witness ==
  /\ Returned("applyOverlay")
  /\ call.options.scale = 95
  /\ call.overlayUrl = "wide.png"
  /\ call.imageFile.photo = "P"
  /\ DrawnLayer.width = RatInt(3)
  /\ DrawnLayer.height = RatInt(4)

\* C20: in applyOverlay the origin of the overlay box follows from the
\* position without padding: top-left is (0, 0); top-right has x + boxW = W
\* and y = 0; bottom-left has x = 0 and y + boxH = H; bottom-right has
\* x + boxW = W and y + boxH = H; center has equal margins on both sides
\* of each axis.
C20_OriginFlushToEdges ==
  Returned("applyOverlay") =>
    LET W == RatInt(Width(call.imageFile.photo))
        H == RatInt(Height(call.imageFile.photo))
        x == DrawnLayer.x
        y == DrawnLayer.y
        boxW == DrawnLayer.width
        boxH == DrawnLayer.height
        zero == RatInt(0)
        position == call.options.position
    IN /\ position = "top-left" => (x = zero /\ y = zero)
       /\ position = "top-right" => (RatAdd(x, boxW) = W /\ y = zero)
       /\ position = "bottom-left" => (x = zero /\ RatAdd(y, boxH) = H)
       /\ position = "bottom-right" =>
            (RatAdd(x, boxW) = W /\ RatAdd(y, boxH) = H)
       /\ position = "center" =>
            /\ RatAdd(x, RatAdd(x, boxW)) = W
            /\ RatAdd(y, RatAdd(y, boxH)) = H

\* C20 witness: an overlay smaller than the photo was drawn bottom-right,
\* away from the top and left edges.
C20_Witness ==
  /\ Returned("applyOverlay")
  /\ call.options.position = "bottom-right"
  /\ call.options.scale = 30
  /\ DrawnLayer.x.n > 0
  /\ DrawnLayer.y.n > 0
  /\ DrawnLayer.x.d > 1

\* C24 (as claimed): handleUpload reads the selection state of a capture
\* only after the capture's processImageForOverlay call has finished
\* (classification, then eligibility, then selection, then compositing):
\* no upload is in its first step while that call is still pending.
C24_UploadAfterProcessing ==
  upload.pc = "validate" => ~InFlight(upload.capturedImage.photo)

\* C25 (as claimed): a processImageForOverlay call that finishes after
\* Retake was pressed, with no new capture made, leaves the orientation,
\* the eligible set, the chosen index and the carousel flag as Retake left
\* them.
C25_StaleDetectionDiscarded ==
  [][\A t \in detecting :
       (/\ processImageForOverlay(t)
        /\ attempts = 0
        /\ capturedImage = NoImage)
       => UNCHANGED <<imageOrientation, availableOverlays,
                      selectedOverlayIndex, showOverlayCarousel>>]_vars

\* C26 (as claimed): the overlay composited for a capture comes from the
\* orientation, the eligible set and the chosen index computed for that
\* same capture.
C26_NoCarryoverBetweenCaptures ==
  (PastOverlay /\ upload.applied = "ok") =>
    LET eligible == EligibleFor(upload.capturedImage)
        i == upload.selectedOverlayIndex
    IN /\ upload.imageOrientation = detectOrientation(upload.capturedImage)
       /\ upload.availableOverlays = eligible
       /\ i >= 0 /\ i < Len(eligible)
       /\ upload.selectedOverlay = eligible[i + 1]

\* C29 (as claimed): in every state of the capture page the chosen index is
\* none or an index into the eligible set in state.
C29_ChosenIndexInRange ==
  \/ selectedOverlayIndex = NoIdx
  \/ /\ 0 <= selectedOverlayIndex
     /\ selectedOverlayIndex < Len(availableOverlays)

\* C27 (as claimed): the opacity and the scale applyOverlay draws with lie
\* within [0, 1] (0..100 percent), so the overlay box never has a negative
\* width or height.
C27_OpacityAndScaleWithinDomain ==
  Returned("applyOverlay") =>
    /\ DrawnLayer.opacity >= 0 /\ DrawnLayer.opacity <= 100
    /\ DrawnLayer.scale >= 0 /\ DrawnLayer.scale <= 100
    /\ DrawnLayer.width.n >= 0
    /\ DrawnLayer.height.n >= 0

\* The ids of a list of items, position by position, and the items whose
\* id is not X, in their order.
IdsOf(overlays) == [i \in DOMAIN overlays |-> overlays[i].id]
OthersOf(overlays, X) == SelectSeq(overlays, LAMBDA o : o.id # X)

\* C28: an updateOverlayItem, updateOrientationSettings or
\* copySettingsToLandscape step addressed to id X leaves every item's id
\* in place; these and a removeOverlayItem step for X leave the items with
\* another id unchanged in content and relative order; and
\* copySettingsToLandscape leaves X's portrait settings and portraitUrl
\* unchanged.  (Every edit is counted in admin.edits and every removal
\* shortens the list; the step is matched against the operations only then.)
C28_IdentityStableUnderEdits ==
  [][\A X \in FormIds :
       LET old == admin.overlayConfig.overlays
           new == admin'.overlayConfig.overlays
           counted == admin'.edits = admin.edits + 1
           shorter == Len(new) < Len(old)
           edit ==
             \/ \E updates \in ItemUpdates : updateOverlayItem(X, updates)
             \/ \E orientation \in Orientations, settings \in SettingsUpdates :
                  updateOrientationSettings(X, orientation, settings)
             \/ copySettingsToLandscape(X)
           idsKept == IdsOf(new) = IdsOf(old)
           othersKept == OthersOf(new, X) = OthersOf(old, X)
           portraitKept ==
             \A i \in DOMAIN old :
               old[i].id = X =>
                 /\ i \in DOMAIN new
                 /\ new[i].portrait = old[i].portrait
                 /\ new[i].portraitUrl = old[i].portraitUrl
       IN /\ (idsKept /\ othersKept) \/ ~(counted /\ edit)
          /\ (shorter /\ removeOverlayItem(X)) =>
               /\ othersKept
               /\ \A i \in DOMAIN new : \E j \in DOMAIN old : new[i] = old[j]
          /\ portraitKept \/ ~(counted /\ copySettingsToLandscape(X))]_vars

\* C28 witness: after an item was removed, the form holds an edited item
\* whose portrait was copied to landscape next to an item still as it was
\* created.
C28_Witness ==
  /\ admin.uuids > Len(admin.overlayConfig.overlays)
  /\ admin.edits = MaxEdits
  /\ \E i, j \in DOMAIN admin.overlayConfig.overlays :
       LET a == admin.overlayConfig.overlays[i]
           b == admin.overlayConfig.overlays[j]
       IN /\ a.name = "Logo"
          /\ a.landscapeUrl = "logo-p.png"
          /\ b = createEmptyOverlayItem(b.id)

\* C21 (as claimed): the rows recorded for a link never outnumber the
\* link's max_uploads, however many clients upload with it at once.
C21_RecordedWithinMaxUploads ==
  Cardinality({row \in pending_uploads : row.token_id = TokenId})
    <= token.max_uploads

\* C22 (as claimed): a validation of an active token whose expires_at is
\* null and whose upload_count is below max_uploads accepts it, in
\* handleUpload and in validate-upload-token alike.
C22_NullExpiryNeverExpires ==
  \A c \in DOMAIN link :
    (/\ link[c].pc # "start"
     /\ link[c].tokenData.is_active
     /\ link[c].tokenData.expires_at = "null"
     /\ link[c].tokenData.upload_count < link[c].tokenData.max_uploads)
    => link[c].response = NoError

\* C23: after any sequence of completed saveToHistory calls the history
\* store holds at most 10 items, as many as were saved up to 10, and the
\* evicted items are the ones with the oldest timestamps: no evicted item
\* is newer than an item that is kept.
C23_HistoryKeepsNewestTen ==
  /\ Cardinality(history.store) <= MAX_HISTORY_ITEMS
  /\ (Cardinality(history.store) + Cardinality(history.evicted)
        > MAX_HISTORY_ITEMS
      => Cardinality(history.store) = MAX_HISTORY_ITEMS)
  /\ \A gone \in history.evicted : \A held \in history.store :
       gone.timestamp <= held.timestamp

\* Two saves into a full store have each evicted one item.
C23_Witness ==
  /\ Cardinality(history.store) = MAX_HISTORY_ITEMS
  /\ Cardinality(history.evicted) >= 2
  /\ history.saves >= 2

\* C30: on the approvals page approve and reject are applied only to an
\* upload whose stored status is 'pending': the only status transitions the
\* page makes are pending to approved and pending to rejected, however
\* filter changes interleave with the reloads of the list.
C30_OnlyPendingIsDecided ==
  approvals.open =>
    approvals.applied \subseteq
      {<<"pending", "approved">>, <<"pending", "rejected">>}


====
